---- MODULE Spec2Model ----
(***************************************************************************)
(* Session/credential broker of the CV Converter web application:          *)
(*   JWTManager   (src/app/auth/jwt_manager.py)   signed session tokens    *)
(*   UserManager  (src/app/models/user.py)        the sqlite users table   *)
(*   AuthService  (src/app/auth/auth_service.py)  login / session / logout *)
(*                                                                         *)
(* Time is counted in whole hours (the unit of token_expiry_hours and      *)
(* refresh_threshold_hours); the truncation of datetimes to whole seconds  *)
(* that the JWT encoding performs is below this resolution.                *)
(* Python's None is the record None.                                       *)
(***************************************************************************)
EXTENDS Integers, Sequences, FiniteSets, TLC

VARIABLES
    users,       \* rows of the sqlite table `users`
    createdLog,  \* history: one entry per committed INSERT, in commit order
    clock,       \* datetime.now(), in hours
    session,     \* session |-> st.session_state of that browser session
    pc,          \* session |-> position of the session's script inside login()
    loc,         \* session |-> local variables of the running login()
    logins,      \* history: login() calls made so far
    adminOps,    \* history: administrative calls (role change, delete) so far
    ret,         \* the call that returned in the last step (NoCall if none did)
    tk_token,    \* token-manager harness: the token under test
    tk_now,      \* token-manager harness: datetime.now(UTC)
    tk_args,     \* token-manager harness: the arguments tk_token was issued for
    tk_out,      \* token-manager harness: the last call and its result
    tq_today,    \* ticket-query harness: datetime.now().date()
    tq_out       \* ticket-query harness: the last call and its result

vars == <<users, createdLog, clock, session, pc, loc, logins, adminOps, ret,
          tk_token, tk_now, tk_args, tk_out, tq_today, tq_out>>
sysVars == <<users, createdLog, clock, session, pc, loc, logins, adminOps, ret>>
tkVars == <<tk_token, tk_now, tk_args, tk_out>>
tqVars == <<tq_today, tq_out>>

(***************************************************************************)
(* Bounds of the model                                                     *)
(***************************************************************************)
MaxClock == 12     \* the clock stops advancing here
MaxLogins == 2     \* login() calls in one behaviour
MaxAdminOps == 1   \* role changes and deletions in one behaviour
MaxNow == 14       \* token harness: the clock stops advancing here
MaxUserId == 2     \* token harness: user ids 1..MaxUserId
MaxSeqCreates == 3 \* sequential store: committed INSERTs in one behaviour
FirstYear == 2024    \* ticket-query harness: today runs from 1 January of this year
LastYear == 2025     \* ticket-query harness: ... to 31 December of this year
MaxPage == 3         \* ticket-query harness: pages 1..MaxPage
MaxPageActions == 3   \* clicks on the user management page

(***************************************************************************)
(* Python values                                                           *)
(***************************************************************************)
None == [none |-> TRUE]

Roles == {"admin", "user"}

(***************************************************************************)
(* JWTManager                                                              *)
(***************************************************************************)
token_expiry_hours == 12
refresh_threshold_hours == 1
secret_key == "JWT_SECRET_KEY"

\* HS256: a keyed MAC of the encoded header and payload. Modelled as ideal:
\* two MACs are equal exactly when key and body are.
HMAC(key, body) == <<key, body>>

\* jwt.encode(payload, key, algorithm="HS256"): the compact JWS
\* header.payload.signature; datetimes become integer timestamps.
jwt_encode(payload, key) ==
    [fmt |-> "jws", body |-> payload, sig |-> HMAC(key, payload)]

\* A string that is no compact JWS (wrong segment count, bad base64, bad JSON).
MalformedToken == [fmt |-> "garbage", body |-> None, sig |-> None]

\* The exception classes of PyJWT that derive from jwt.InvalidTokenError.
InvalidTokenError ==
    {"InvalidTokenError", "DecodeError", "InvalidSignatureError",
     "ExpiredSignatureError", "InvalidAlgorithmError"}

\* jwt.decode(token, key, algorithms=["HS256"]): parse, then check the
\* signature, then the exp claim (expired when exp <= now).
jwt_decode_late(token, key, now) ==
    IF token = None \/ token.fmt # "jws"
    THEN [exc |-> "DecodeError", payload |-> None]
    ELSE IF token.sig # HMAC(key, token.body)
    THEN [exc |-> "InvalidSignatureError", payload |-> None]
    ELSE IF token.body.exp < now
    THEN [exc |-> "ExpiredSignatureError", payload |-> None]
    ELSE [exc |-> "none", payload |-> token.body]

jwt_decode_no_exp(token, key, now) ==
    IF token = None \/ token.fmt # "jws"
    THEN [exc |-> "DecodeError", payload |-> None]
    ELSE IF token.sig # HMAC(key, token.body)
    THEN [exc |-> "InvalidSignatureError", payload |-> None]
    ELSE [exc |-> "none", payload |-> token.body]

jwt_decode(token, key, now) ==
    IF token = None \/ token.fmt # "jws"
    THEN [exc |-> "DecodeError", payload |-> None]
    ELSE IF token.sig # HMAC(key, token.body)
    THEN [exc |-> "InvalidSignatureError", payload |-> None]
    ELSE IF token.body.exp <= now
    THEN [exc |-> "ExpiredSignatureError", payload |-> None]
    ELSE [exc |-> "none", payload |-> token.body]

Raised(exc) == [raised |-> exc]

IsRaised(x) == DOMAIN x = {"raised"}

create_token_default_role(user_id, username, role, now) ==
    jwt_encode([user_id |-> user_id, username |-> username, role |-> "user",
                iat |-> now, exp |-> now + token_expiry_hours],
               secret_key)

create_token(user_id, username, role, now) ==
    jwt_encode([user_id |-> user_id, username |-> username, role |-> role,
                iat |-> now, exp |-> now + token_expiry_hours],
               secret_key)

verify_token_expired_only(token, now) ==
    LET r == jwt_decode(token, secret_key, now) IN
    IF r.exc = "none" THEN r.payload
    ELSE IF r.exc = "ExpiredSignatureError" THEN None
    ELSE Raised(r.exc)

verify_token(token, now) ==
    LET r == jwt_decode(token, secret_key, now) IN
    IF r.exc = "none" THEN r.payload
    ELSE IF r.exc = "ExpiredSignatureError" THEN None
    ELSE IF r.exc \in InvalidTokenError THEN None
    ELSE Raised(r.exc)

is_token_expired(token, now) ==
    LET payload == verify_token(token, now) IN
    IF IsRaised(payload) THEN payload ELSE payload = None

should_refresh_token_strict(token, now) ==
    LET payload == verify_token(token, now) IN
    IF IsRaised(payload) THEN payload
    ELSE IF payload = None THEN FALSE
    ELSE IF payload.exp = 0 THEN FALSE
    ELSE now > payload.exp - refresh_threshold_hours

should_refresh_token(token, now) ==
    LET payload == verify_token(token, now) IN
    IF IsRaised(payload) THEN payload
    ELSE IF payload = None THEN FALSE      \* `if not payload`
    ELSE IF payload.exp = 0 THEN FALSE     \* `if not exp_timestamp`
    ELSE now >= payload.exp - refresh_threshold_hours

refresh_token_in_window(token, now) ==
    LET payload == verify_token(token, now) IN
    IF IsRaised(payload) THEN payload
    ELSE IF payload = None THEN None
    ELSE IF now < payload.exp - refresh_threshold_hours THEN None
    ELSE create_token(payload.user_id, payload.username, payload.role, now)

refresh_token(token, now) ==
    LET payload == verify_token(token, now) IN
    IF IsRaised(payload) THEN payload
    ELSE IF payload = None THEN None       \* `if not payload`
    ELSE create_token(payload.user_id, payload.username, payload.role, now)

(***************************************************************************)
(* Token harness: one holder of a token applies the JWTManager operations  *)
(* to it while time passes and the token is tampered with.                 *)
(***************************************************************************)
Logins == {"alice", "bob"}

TamperKinds == {"payload", "lifetime", "resigned", "garbage"}

\* What a party without the secret key can turn a token into.
Tamper(kind, token) ==
    IF token = None \/ token.fmt # "jws" \/ kind = "garbage" THEN MalformedToken
    ELSE IF kind = "payload"
    THEN [token EXCEPT !.body.role = IF @ = "admin" THEN "user" ELSE "admin"]
    ELSE IF kind = "lifetime"
    THEN [token EXCEPT !.body.exp = @ + token_expiry_hours]
    ELSE [token EXCEPT !.sig = HMAC("attacker_key", token.body)]

NoCall == [s |-> 0, op |-> "none", val |-> None]

TkInit ==
    /\ tk_token = None
    /\ tk_now = 0
    /\ tk_args = None
    /\ tk_out = NoCall

TkCreate(user_id, username, role) ==
    /\ tk_token' = create_token(user_id, username, role, tk_now)
    /\ tk_args' = [user_id |-> user_id, username |-> username, role |-> role,
                   at |-> tk_now, token |-> tk_token']
    /\ tk_out' = [s |-> 0, op |-> "create_token", val |-> tk_token']
    /\ UNCHANGED tk_now

TkTamper(kind) ==
    /\ tk_args # None
    /\ tk_token' = Tamper(kind, tk_args.token)
    /\ tk_out' = NoCall
    /\ UNCHANGED <<tk_now, tk_args>>

TkTick ==
    /\ tk_now < MaxNow
    /\ tk_now' = tk_now + 1
    /\ tk_out' = NoCall
    /\ UNCHANGED <<tk_token, tk_args>>

TkVerify ==
    /\ tk_out' = [s |-> 0, op |-> "verify_token", val |-> verify_token(tk_token, tk_now)]
    /\ UNCHANGED <<tk_token, tk_now, tk_args>>

TkIsExpired ==
    /\ tk_out' = [s |-> 0, op |-> "is_token_expired",
                  val |-> is_token_expired(tk_token, tk_now)]
    /\ UNCHANGED <<tk_token, tk_now, tk_args>>

TkShouldRefresh ==
    /\ tk_out' = [s |-> 0, op |-> "should_refresh_token",
                  val |-> should_refresh_token(tk_token, tk_now)]
    /\ UNCHANGED <<tk_token, tk_now, tk_args>>

TkRefresh ==
    /\ tk_out' = [s |-> 0, op |-> "refresh_token", val |-> refresh_token(tk_token, tk_now)]
    /\ UNCHANGED <<tk_token, tk_now, tk_args>>

TkNext ==
    \/ \E user_id \in 1..MaxUserId, username \in Logins, role \in Roles :
            TkCreate(user_id, username, role) /\ UNCHANGED <<sysVars, tqVars>>
    \/ \E kind \in TamperKinds : TkTamper(kind) /\ UNCHANGED <<sysVars, tqVars>>
    \/ TkTick /\ UNCHANGED <<sysVars, tqVars>>
    \/ TkVerify /\ UNCHANGED <<sysVars, tqVars>>
    \/ TkIsExpired /\ UNCHANGED <<sysVars, tqVars>>
    \/ TkShouldRefresh /\ UNCHANGED <<sysVars, tqVars>>
    \/ TkRefresh /\ UNCHANGED <<sysVars, tqVars>>

(***************************************************************************)
(* Python dicts (st.session_state): a function on the keys that are set    *)
(***************************************************************************)
EmptyDict == [k \in {} |-> None]

DictSet(d, key, value) ==
    [k \in DOMAIN d \cup {key} |-> IF k = key THEN value ELSE d[k]]

(***************************************************************************)
(* UserManager: the table `users`                                          *)
(*   id INTEGER PRIMARY KEY, redmine_user_id INTEGER UNIQUE, username,     *)
(*   role CHECK(role IN ('admin','user')), last_login                      *)
(* (custom_fields, conversion_count and created_at are not modelled: no    *)
(* operation below reads them).                                            *)
(***************************************************************************)
NULL == -1    \* the NULL of the column last_login

get_user_count(table) == Cardinality(table)

get_user_by_redmine_id(table, redmine_user_id) ==
    IF \E row \in table : row.redmine_user_id = redmine_user_id
    THEN CHOOSE row \in table : row.redmine_user_id = redmine_user_id
    ELSE None

get_user_by_id(table, user_id) ==
    IF \E row \in table : row.id = user_id
    THEN CHOOSE row \in table : row.id = user_id
    ELSE None

\* sqlite rowid of an INSERT that gives no id: one more than the largest
\* id in use, 1 in an empty table.
lastrowid(table) ==
    IF table = {} THEN 1
    ELSE (CHOOSE i \in {row.id : row \in table} :
              \A row \in table : row.id <= i) + 1

role_for_count_off_by_one(count) == IF count <= 1 THEN "admin" ELSE "user"

role_for_count_default(count) == "user"

\* create_user, lines 79-80: the role from the count read beforehand.
role_for_count(count) == IF count = 0 THEN "admin" ELSE "user"

insert_never_violates_unique(table, redmine_user_id) == FALSE

\* create_user, lines 82-95: the INSERT. The UNIQUE constraint on
\* redmine_user_id makes it raise sqlite3.IntegrityError.
insert_violates_unique(table, redmine_user_id) ==
    \E row \in table : row.redmine_user_id = redmine_user_id

insert_user(table, redmine_user_id, username, role) ==
    table \cup {[id |-> lastrowid(table), redmine_user_id |-> redmine_user_id,
                 username |-> username, role |-> role, last_login |-> NULL]}

update_last_login_demotes(table, user_id, now) ==
    {IF row.id = user_id THEN [row EXCEPT !.last_login = now, !.role = "user"]
     ELSE row : row \in table}

update_last_login(table, user_id, now) ==
    {IF row.id = user_id THEN [row EXCEPT !.last_login = now] ELSE row :
        row \in table}

update_user_role_unvalidated(table, user_id, new_role) ==
    {IF row.id = user_id THEN [row EXCEPT !.role = new_role] ELSE row :
        row \in table}

update_user_role(table, user_id, new_role) ==
    IF new_role \notin {"admin", "user"} THEN table
    ELSE {IF row.id = user_id THEN [row EXCEPT !.role = new_role] ELSE row :
            row \in table}

\* The value update_user_role returns: False for a role that is not one of
\* the two, else cursor.rowcount > 0.
update_user_role_returns(table, user_id, new_role) ==
    IF new_role \notin {"admin", "user"} THEN FALSE
    ELSE Cardinality({row \in table : row.id = user_id}) > 0

delete_user(table, user_id) == {row \in table : row.id # user_id}

LogEntry(table, redmine_user_id, role) ==
    [id |-> lastrowid(table), redmine_user_id |-> redmine_user_id,
     role |-> role, count |-> Cardinality(table)]

(***************************************************************************)
(* The remote tracker (environment): its accounts, and how one             *)
(* GET /users/current.json ends.                                           *)
(***************************************************************************)
RemoteIdOf(login) == IF login = "alice" THEN 101 ELSE 102

PasswordOf(login) == IF login = "alice" THEN "pw_alice" ELSE "pw_bob"

Passwords == {PasswordOf(l) : l \in Logins}   \* each wrong for the other login

\* ok: 200 with the account; no_id: 200 with a body that names no id;
\* rejected: a status other than 200; unreachable: RequestException.
RemoteOutcomes == {"ok", "no_id", "rejected", "unreachable"}

OutcomePossible(username, password, outcome) ==
    \/ outcome = "unreachable"
    \/ outcome = "rejected" /\ password # PasswordOf(username)
    \/ outcome \in {"ok", "no_id"} /\ password = PasswordOf(username)

\* RedmineClient.authenticate_user: the decoded body, or None.
redmine_authenticate_user(username, password, outcome) ==
    IF outcome = "ok"
    THEN [user |-> [id |-> RemoteIdOf(username), login |-> username]]
    ELSE IF outcome = "no_id"
    THEN [user |-> [login |-> username]]
    ELSE None

(***************************************************************************)
(* datetime.date (proleptic Gregorian calendar), as far as TicketManager    *)
(* uses it. A date is [year, month, day]; its ordinal counts days from      *)
(* 0001-01-01 = 1, a Monday.                                                *)
(***************************************************************************)
is_leap(year) == year % 4 = 0 /\ (year % 100 # 0 \/ year % 400 = 0)

days_in_month(year, month) ==
    IF month = 2 THEN (IF is_leap(year) THEN 29 ELSE 28)
    ELSE IF month \in {4, 6, 9, 11} THEN 30 ELSE 31

days_before_year(year) ==
    LET y == year - 1 IN y * 365 + y \div 4 - y \div 100 + y \div 400

days_before_month(year, month) ==
    <<0, 31, 59, 90, 120, 151, 181, 212, 243, 273, 304, 334>>[month]
        + (IF month > 2 /\ is_leap(year) THEN 1 ELSE 0)

toordinal(date) ==
    days_before_year(date.year) + days_before_month(date.year, date.month)
        + date.day

fromordinal(n) ==
    LET year == CHOOSE y \in (FirstYear - 1)..(LastYear + 1) :
                    days_before_year(y) < n /\ n <= days_before_year(y + 1)
        rest == n - days_before_year(year)
        month == CHOOSE m \in 1..12 :
                     /\ days_before_month(year, m) < rest
                     /\ rest <= days_before_month(year, m) + days_in_month(year, m)
    IN  [year |-> year, month |-> month,
         day |-> rest - days_before_month(year, month)]

\* date.weekday(): Monday is 0.
weekday(date) == (toordinal(date) + 6) % 7

\* date + timedelta(days=days)
timedelta_add(date, days) == fromordinal(toordinal(date) + days)

\* date.replace(day=day), date.replace(month=month): ValueError for a
\* field out of range.
replace_day(date, day) ==
    IF day < 1 \/ day > days_in_month(date.year, date.month)
    THEN Raised("ValueError")
    ELSE [date EXCEPT !.day = day]

replace_month(date, month) ==
    IF month < 1 \/ month > 12 THEN Raised("ValueError")
    ELSE IF date.day > days_in_month(date.year, month) THEN Raised("ValueError")
    ELSE [date EXCEPT !.month = month]

\* date.strftime("%Y-%m-%d"): the zero-padded fields of the string.
strftime(date) == <<date.year, date.month, date.day>>

(***************************************************************************)
(* TicketManager                                                           *)
(***************************************************************************)
tickets_per_page == 15    \* the default of TICKETS_PER_PAGE

DateFilters == {"this_week", "last_week", "this_month", "last_month", "all"}

get_this_week_date_range_from_sunday(today) ==
    LET days_since_sunday == (weekday(today) + 1) % 7
        start_of_week == timedelta_add(today, -days_since_sunday)
        end_of_week == timedelta_add(start_of_week, 6)
    IN  <<strftime(start_of_week), strftime(end_of_week)>>

get_this_week_date_range(today) ==
    LET days_since_monday == weekday(today)
        start_of_week == timedelta_add(today, -days_since_monday)
        end_of_week == timedelta_add(start_of_week, 6)
    IN  <<strftime(start_of_week), strftime(end_of_week)>>

NoDateFilter == [f |-> "", op |-> "", v |-> <<>>]   \* the empty dict

\* get_tickets, lines 168-206: date_filter_params, or the exception raised
\* while it is built.
date_filter_params(date_filter, today) ==
    IF date_filter = "this_week"
    THEN [f |-> "created_on", op |-> "><",
          v |-> get_this_week_date_range(today)]
    ELSE IF date_filter = "last_week"
    THEN LET days_since_monday == weekday(today)
             this_monday == timedelta_add(today, -days_since_monday)
             last_monday == timedelta_add(this_monday, -7)
             last_sunday == timedelta_add(last_monday, 6)
         IN  [f |-> "created_on", op |-> "><",
              v |-> <<strftime(last_monday), strftime(last_sunday)>>]
    ELSE IF date_filter = "this_month"
    THEN LET start_of_month == replace_day(today, 1) IN
         [f |-> "created_on", op |-> ">=", v |-> <<strftime(start_of_month)>>]
    ELSE IF date_filter = "last_month"
    THEN LET start_of_month == replace_month(replace_day(today, 1),
                                             today.month - 1)
         IN  IF IsRaised(start_of_month) THEN start_of_month
             ELSE [f |-> "created_on", op |-> ">=",
                   v |-> <<strftime(start_of_month)>>]
    ELSE NoDateFilter

\* get_tickets, line 224: the offset of the request.
request_offset(page, per_page) == (page - 1) * per_page

estimated_total_count_no_extra(n, page, per_page) ==
    n + ((page - 1) * per_page)

\* get_tickets, lines 233-235: the total reported when the shared API key
\* is used; n is len(issues).
estimated_total_count(n, page, per_page) ==
    LET total_count == n + ((page - 1) * per_page) IN
    IF n = per_page THEN total_count + 1 ELSE total_count

(***************************************************************************)
(* Ticket-query harness: the date filters on every day of the years        *)
(* FirstYear..LastYear, and the pagination of the shared-key query.        *)
(***************************************************************************)
PageSizes == {1, 2, tickets_per_page}

TqInit ==
    /\ tq_today = [year |-> FirstYear, month |-> 1, day |-> 1]
    /\ tq_out = NoCall

TqNextDay ==
    /\ timedelta_add(tq_today, 1).year <= LastYear
    /\ tq_today' = timedelta_add(tq_today, 1)
    /\ tq_out' = NoCall

TqDateFilter(date_filter) ==
    /\ tq_out' = [s |-> 0, op |-> "date_filter", filter |-> date_filter,
                  val |-> date_filter_params(date_filter, tq_today)]
    /\ UNCHANGED tq_today

\* The shared-key branch of get_tickets for a response of n issues.
TqGetTickets(page, per_page, n) ==
    /\ tq_out' = [s |-> 0, op |-> "get_tickets", page |-> page,
                  per_page |-> per_page, n |-> n,
                  offset |-> request_offset(page, per_page),
                  val |-> estimated_total_count(n, page, per_page)]
    /\ UNCHANGED tq_today

TqNext ==
    \/ TqNextDay /\ UNCHANGED <<sysVars, tkVars>>
    \/ \E date_filter \in DateFilters :
            TqDateFilter(date_filter) /\ UNCHANGED <<sysVars, tkVars>>
    \/ \E page \in 1..MaxPage, per_page \in PageSizes :
            \E n \in 0..per_page :
                TqGetTickets(page, per_page, n) /\ UNCHANGED <<sysVars, tkVars>>

(***************************************************************************)
(* AuthService                                                             *)
(***************************************************************************)
\* Two browser sessions: the fewest that can race.
Sessions == {1, 2}

NoError == "None"   \* Python None where a message string is expected

NoLocals ==
    [username |-> "", password |-> "", redmine_user_id |-> 0,
     redmine_username |-> "", user |-> None, count |-> 0, user_id |-> 0]

authenticate_early_return_silent(redmine_user_data) ==
    IF redmine_user_data = None
    THEN [success |-> FALSE, error |-> "Invalid Redmine credentials"]
    ELSE IF "id" \notin DOMAIN redmine_user_data.user
    THEN [success |-> FALSE, error |-> NoError]
    ELSE [success |-> TRUE, error |-> "proceed"]

\* authenticate_user, lines 43-55: what it returns before it touches the
\* table, or "proceed" when it goes on to the table.
authenticate_early_return(redmine_user_data) ==
    IF redmine_user_data = None
    THEN [success |-> FALSE, error |-> "Invalid Redmine credentials"]
    ELSE IF "id" \notin DOMAIN redmine_user_data.user
    THEN [success |-> FALSE,
          error |-> "Unable to retrieve user information from Redmine"]
    ELSE [success |-> TRUE, error |-> "proceed"]

create_session_by_remote_id(user, now) ==
    create_token(user.redmine_user_id, user.username, user.role, now)

create_session(user, now) ==
    create_token(user.id, user.username, user.role, now)

\* login, lines 196-209: the session after a successful authenticate_user.
login_session(state, user, username, password, now) ==
    LET s1 == DictSet(state, "jwt_token", create_session(user, now))
        s2 == DictSet(s1, "user_id", user.id)
        s3 == DictSet(s2, "username", user.username)
        s4 == DictSet(s3, "user_role", user.role)
        s5 == DictSet(s4, "redmine_username", username)
    IN  DictSet(s5, "redmine_password", password)

session_keys_without_credentials ==
    {"jwt_token", "user_id", "username", "user_role"}

session_keys_to_clear ==
    {"jwt_token", "user_id", "username", "user_role",
     "redmine_username", "redmine_password"}

logout(state) == [k \in DOMAIN state \ session_keys_to_clear |-> state[k]]

current_token_no_rotation(state, now) ==
    IF "jwt_token" \notin DOMAIN state THEN None ELSE state.jwt_token

\* get_current_user, lines 106-115: the token the session holds after the
\* refresh check.
current_token(state, now) ==
    IF "jwt_token" \notin DOMAIN state THEN None
    ELSE IF should_refresh_token(state.jwt_token, now) = TRUE
              /\ refresh_token(state.jwt_token, now) # None
         THEN refresh_token(state.jwt_token, now)
         ELSE state.jwt_token

get_current_user_state_drops_token_only(state, now) ==
    IF "jwt_token" \notin DOMAIN state THEN state
    ELSE IF verify_token(current_token(state, now), now) = None
         THEN [k \in DOMAIN state \ {"jwt_token"} |-> state[k]]
         ELSE DictSet(state, "jwt_token", current_token(state, now))

\* get_current_user: the session state it leaves.
get_current_user_state(state, now) ==
    IF "jwt_token" \notin DOMAIN state THEN state
    ELSE IF verify_token(current_token(state, now), now) = None
         THEN logout(state)
         ELSE DictSet(state, "jwt_token", current_token(state, now))

get_current_user_from_payload(state, table, now) ==
    IF "jwt_token" \notin DOMAIN state THEN None
    ELSE LET payload == verify_token(current_token(state, now), now) IN
         IF payload = None THEN None
         ELSE IF payload.user_id = 0 THEN None
         ELSE IF get_user_by_id(table, payload.user_id) # None
              THEN get_user_by_id(table, payload.user_id)
              ELSE [id |-> payload.user_id, redmine_user_id |-> NULL,
                    username |-> payload.username, role |-> payload.role,
                    last_login |-> NULL]

\* get_current_user: the User it returns, or None.
get_current_user(state, table, now) ==
    IF "jwt_token" \notin DOMAIN state THEN None
    ELSE LET payload == verify_token(current_token(state, now), now) IN
         IF payload = None THEN None
         ELSE IF payload.user_id = 0 THEN None     \* `if user_id:`
         ELSE get_user_by_id(table, payload.user_id)

\* get_current_user, lines 124-126: whether the call reads the table.
get_current_user_reads_store(state, now) ==
    IF "jwt_token" \notin DOMAIN state THEN FALSE
    ELSE LET payload == verify_token(current_token(state, now), now) IN
         payload # None /\ payload.user_id # 0

\* is_authenticated: get_current_user() is not None.
is_authenticated(state, table, now) == get_current_user(state, table, now) # None

is_admin_from_token(state, table, now) ==
    /\ get_current_user(state, table, now) # None
    /\ verify_token(current_token(state, now), now).role = "admin"

\* is_admin: user is not None and user.role == "admin".
is_admin(state, table, now) ==
    LET user == get_current_user(state, table, now) IN
    user # None /\ user.role = "admin"

store_user_credentials(state, username, password) ==
    DictSet(DictSet(state, "redmine_username", username),
            "redmine_password", password)

\* get_user_credentials: the pair, or None.
get_user_credentials(state) ==
    IF {"redmine_username", "redmine_password"} \subseteq DOMAIN state
           /\ state.redmine_username # "" /\ state.redmine_password # ""
    THEN [username |-> state.redmine_username,
          password |-> state.redmine_password]
    ELSE None

clear_user_credentials_username_only(state) ==
    [k \in DOMAIN state \ {"redmine_username"} |-> state[k]]

clear_user_credentials(state) ==
    [k \in DOMAIN state \ {"redmine_username", "redmine_password"} |-> state[k]]

\* authenticate_user as a whole, with nothing else writing the table while it
\* runs: (success, error, user), the table it leaves and the rows it logged.
authenticate_user(table, username, password, outcome, now) ==
    LET data == redmine_authenticate_user(username, password, outcome)
        early == authenticate_early_return(data)
    IN  IF ~early.success
        THEN [success |-> FALSE, error |-> early.error, user |-> None,
              users |-> table, log |-> <<>>]
        ELSE LET existing_user == get_user_by_redmine_id(table, data.user.id) IN
             IF existing_user # None
             THEN [success |-> TRUE, error |-> NoError, user |-> existing_user,
                   users |-> update_last_login(table, existing_user.id, now),
                   log |-> <<>>]
             ELSE IF insert_violates_unique(table, data.user.id)
             THEN [success |-> FALSE,
                   error |-> "Authentication error: UNIQUE constraint failed",
                   user |-> None, users |-> table, log |-> <<>>]
             ELSE LET role == role_for_count(get_user_count(table))
                      created == insert_user(table, data.user.id,
                                             data.user.login, role)
                  IN  [success |-> TRUE, error |-> NoError,
                       user |-> get_user_by_id(created, lastrowid(table)),
                       users |-> created,
                       log |-> <<LogEntry(table, data.user.id, role)>>]

(***************************************************************************)
(* Tickets page: which credentials a ticket request is sent with           *)
(***************************************************************************)
\* REDMINE_API_KEY: unset (the default "") or set.
ApiKeys == {"", "REDMINE_API_KEY"}

\* show_ticket_list, lines 154-165, and the create form, lines 386-396.
select_credentials(credentials, current_user) ==
    IF credentials # None
    THEN [username |-> credentials.username, password |-> credentials.password,
          use_api_key |-> FALSE]
    ELSE [username |-> current_user.username, password |-> "",
          use_api_key |-> TRUE]

request_auth_prefers_key(use_api_key, api_key, username, password) ==
    IF api_key # ""
    THEN [mode |-> "SharedKey", auth |-> <<"X-Redmine-API-Key", api_key>>,
          error |-> NoError]
    ELSE IF username = "" \/ password = ""
    THEN [mode |-> "none", auth |-> <<>>,
          error |-> "Username and password required for authentication"]
    ELSE [mode |-> "ActAsUser", auth |-> <<username, password>>,
          error |-> NoError]

\* get_tickets, lines 217 and 239-240, create_ticket, lines 339 and 356-357:
\* what the request is authorized with.
request_auth(use_api_key, api_key, username, password) ==
    IF use_api_key /\ api_key # ""
    THEN [mode |-> "SharedKey", auth |-> <<"X-Redmine-API-Key", api_key>>,
          error |-> NoError]
    ELSE IF username = "" \/ password = ""
    THEN [mode |-> "none", auth |-> <<>>,
          error |-> "Username and password required for authentication"]
    ELSE [mode |-> "ActAsUser", auth |-> <<username, password>>,
          error |-> NoError]

(***************************************************************************)
(* TicketManager.get_tickets and create_ticket as a whole, against the     *)
(* remote tracker. env is what the call finds around it:                   *)
(*   today, api_key, per_page (TICKETS_PER_PAGE),                          *)
(*   lookup  - how GET /users.json?name=login ends,                        *)
(*   outcome - how the issues request ends, n - the issues it returns.     *)
(* A request is [url, auth, params]; a result carries the requests sent.   *)
(***************************************************************************)
LookupOutcomes == {"found", "absent", "failed"}

IssueOutcomes == {"ok", "status", "network"}

default_project_id == "1"

\* RedmineClient.get_user_by_login: the account with exactly this login, or
\* None (no such account, a status other than 200, RequestException).
get_user_by_login(login, lookup) ==
    IF lookup = "found" THEN [id |-> RemoteIdOf(login), login |-> login]
    ELSE None

\* The issues the remote returns: their ids.
RemoteIssues(n) == [i \in 1..n |-> 1000 + i]

\* get_user_issues_with_api_key, lines 309-339: the query parameters.
api_key_issue_params(assigned_to_user_id, status_filter, limit, offset, dfp) ==
    LET p1 == DictSet(DictSet(DictSet(EmptyDict, "limit", limit),
                              "offset", offset), "sort", "updated_on:desc")
        p2 == DictSet(p1, "project_id", default_project_id)
        p3 == IF assigned_to_user_id # 0               \* `if assigned_to_user_id:`
              THEN DictSet(p2, "assigned_to_id", assigned_to_user_id) ELSE p2
        p4 == IF status_filter \in {"open", "closed"}
              THEN DictSet(p3, "status_id", status_filter) ELSE p3
    IN  IF dfp # NoDateFilter THEN DictSet(p4, "created_on", dfp) ELSE p4

\* get_tickets, lines 245-276: the query parameters with the user's own
\* login and password.
user_issue_params(assigned_to_me, status_filter, limit, offset, dfp) ==
    LET p1 == DictSet(DictSet(DictSet(EmptyDict, "limit", limit),
                              "offset", offset), "sort", "parent:desc")
        p2 == DictSet(p1, "project_id", default_project_id)
        p3 == IF assigned_to_me THEN DictSet(p2, "author_id", "me") ELSE p2
        p4 == IF status_filter \in {"open", "closed"}
              THEN DictSet(p3, "status_id", status_filter) ELSE p3
    IN  IF dfp # NoDateFilter THEN DictSet(p4, "created_on", dfp) ELSE p4

TicketsResult(tickets, total_count, error, requests) ==
    [tickets |-> tickets, total_count |-> total_count, error |-> error,
     requests |-> requests]

get_tickets(username, password, assigned_to_me, status_filter, date_filter, page, use_api_key, env) ==
    LET dfp == date_filter_params(date_filter, env.today) IN
    IF IsRaised(dfp) THEN dfp                  \* raised before the try block
    ELSE
    LET lookup_sent == use_api_key /\ assigned_to_me /\ username # ""
        user_data == IF lookup_sent THEN get_user_by_login(username, env.lookup)
                     ELSE None
        assigned_to_user_id == IF user_data # None THEN user_data.id ELSE 0
        lookup_request ==
            IF lookup_sent
            THEN <<[url |-> "/users.json",
                    auth |-> <<"X-Redmine-API-Key", env.api_key>>,
                    params |-> DictSet(EmptyDict, "name", username)]>>
            ELSE <<>>
        how == request_auth(use_api_key, env.api_key, username, password)
        offset == request_offset(page, env.per_page)
    IN  IF how.mode = "SharedKey"
        THEN LET request ==
                     [url |-> "/issues.json", auth |-> how.auth,
                      params |-> api_key_issue_params(
                          IF assigned_to_me THEN assigned_to_user_id ELSE 0,
                          status_filter, env.per_page, offset, dfp)]
                 requests == Append(lookup_request, request)
             IN  IF env.outcome # "ok"          \* `if issues is None`
                 THEN TicketsResult(<<>>, 0,
                          "Failed to fetch tickets using API key", requests)
                 ELSE TicketsResult(RemoteIssues(env.n),
                          estimated_total_count(env.n, page, env.per_page),
                          NoError, requests)
        ELSE IF how.mode = "none"
        THEN TicketsResult(<<>>, 0, how.error, lookup_request)
        ELSE LET request ==
                     [url |-> "/issues.json", auth |-> how.auth,
                      params |-> user_issue_params(assigned_to_me, status_filter,
                                                   env.per_page, offset, dfp)]
                 requests == Append(lookup_request, request)
             IN  IF env.outcome = "network"
                 THEN TicketsResult(<<>>, 0, "Network error", requests)
                 ELSE IF env.outcome = "status"
                 THEN TicketsResult(<<>>, 0, "API request failed: 403", requests)
                 ELSE TicketsResult(RemoteIssues(env.n), env.n + offset + 7,
                                    NoError, requests)

formatted_subject_always_appends(subject, candidate_name, stack) ==
    IF candidate_name # "" /\ stack # ""
    THEN LET prefix == candidate_name \o " (" \o stack \o ")" IN
         IF subject # "" THEN prefix \o " - " \o subject ELSE prefix
    ELSE subject

\* create_ticket, lines 330-336: the subject that is sent.
formatted_subject(subject, candidate_name, stack) ==
    IF candidate_name # "" /\ stack # ""
    THEN LET prefix == candidate_name \o " (" \o stack \o ")" IN
         IF subject # "" /\ subject # prefix
         THEN prefix \o " - " \o subject
         ELSE prefix
    ELSE subject

\* create_ticket: (ticket, error) and the request sent; the ticket is the
\* subject the remote stored.
create_ticket(subject, candidate_name, stack, username, password, use_api_key, env) ==
    LET how == request_auth(use_api_key, env.api_key, username, password)
        sent == formatted_subject(subject, candidate_name, stack)
        issue == DictSet(DictSet(EmptyDict, "project_id", default_project_id),
                         "subject", sent)
        request == [url |-> "/issues.json", auth |-> how.auth,
                    params |-> IF how.mode = "SharedKey" THEN issue
                               ELSE DictSet(issue, "assigned_to_id", "me")]
    IN  IF how.mode = "none"
        THEN [ticket |-> "", error |-> how.error, requests |-> <<>>]
        ELSE IF env.outcome = "ok"
        THEN [ticket |-> sent, error |-> NoError, requests |-> <<request>>]
        ELSE IF how.mode = "SharedKey"
        THEN [ticket |-> "", error |-> "Failed to create ticket using API key",
              requests |-> <<request>>]
        ELSE IF env.outcome = "network"
        THEN [ticket |-> "", error |-> "Network error", requests |-> <<request>>]
        ELSE [ticket |-> "", error |-> "Failed to create ticket: 403",
              requests |-> <<request>>]

(***************************************************************************)
(* Query harness: get_tickets and create_ticket called with every          *)
(* combination of their arguments and of what the remote does, on dates    *)
(* 31 days apart (every month and every weekday is visited). The caller    *)
(* takes the result of one call before it makes the next.                  *)
(***************************************************************************)
StatusFilters == {"open", "closed", "all"}

\* How the tickets page calls: with the cached credentials, or with the
\* user's login and use_api_key.
CallerCases ==
    {[username |-> "alice", password |-> "pw_alice", use_api_key |-> FALSE,
      api_key |-> "REDMINE_API_KEY", lookup |-> "found"],
     [username |-> "alice", password |-> "", use_api_key |-> TRUE,
      api_key |-> "", lookup |-> "failed"]}
    \cup {[username |-> "alice", password |-> "", use_api_key |-> TRUE,
           api_key |-> "REDMINE_API_KEY", lookup |-> l] : l \in LookupOutcomes}

\* How the issues request ends: <<outcome, n>>.
ResponseCases(per_page) ==
    {<<"ok", 0>>, <<"ok", per_page>>, <<"status", 0>>, <<"network", 0>>}

Subjects == {"", "Fix bug", "Jane Doe (Python)"}

QueryLater ==
    /\ tq_out = NoCall
    /\ timedelta_add(tq_today, 31).year <= LastYear
    /\ tq_today' = timedelta_add(tq_today, 31)
    /\ tq_out' = NoCall

QueryGetTickets(caller, status_filter, date_filter, page, response) ==
    LET env == [today |-> tq_today, api_key |-> caller.api_key,
                per_page |-> tickets_per_page, lookup |-> caller.lookup,
                outcome |-> response[1], n |-> response[2]]
    IN  /\ tq_out = NoCall
        /\ tq_out' = [s |-> 0, op |-> "query", caller |-> caller,
                      filter |-> date_filter, outcome |-> response[1],
                      val |-> get_tickets(caller.username, caller.password,
                                          TRUE, status_filter, date_filter,
                                          page, caller.use_api_key, env)]
        /\ UNCHANGED tq_today

QueryCreateTicket(caller, subject, candidate_name, stack, outcome) ==
    LET env == [today |-> tq_today, api_key |-> caller.api_key,
                per_page |-> tickets_per_page, lookup |-> caller.lookup,
                outcome |-> outcome, n |-> 0]
    IN  /\ tq_out = NoCall
        /\ tq_out' = [s |-> 0, op |-> "create_ticket", caller |-> caller,
                      subject |-> subject, candidate_name |-> candidate_name,
                      stack |-> stack,
                      val |-> create_ticket(subject, candidate_name, stack,
                                            caller.username, caller.password,
                                            caller.use_api_key, env)]
        /\ UNCHANGED tq_today

QueryReturn ==
    /\ tq_out # NoCall
    /\ tq_out' = NoCall
    /\ UNCHANGED tq_today

QueryNext ==
    \/ QueryLater /\ UNCHANGED <<sysVars, tkVars>>
    \/ QueryReturn /\ UNCHANGED <<sysVars, tkVars>>
    \/ \E caller \in CallerCases, status_filter \in StatusFilters,
          date_filter \in DateFilters, page \in {1, MaxPage},
          response \in ResponseCases(tickets_per_page) :
            QueryGetTickets(caller, status_filter, date_filter, page, response)
                /\ UNCHANGED <<sysVars, tkVars>>
    \/ \E caller \in CallerCases, subject \in Subjects,
          candidate_name \in {"", "Jane Doe"}, stack \in {"", "Python"},
          outcome \in IssueOutcomes :
            QueryCreateTicket(caller, subject, candidate_name, stack, outcome)
                /\ UNCHANGED <<sysVars, tkVars>>

(***************************************************************************)
(* The system: the browser sessions over one table and one clock.         *)
(* login() is split at every access to the table, the only state sessions  *)
(* share; everything else one session does between two such accesses is    *)
(* local to it and is part of the same step.                               *)
(***************************************************************************)
\* st.session_state.get("jwt_token")
StoredToken(s) ==
    IF "jwt_token" \in DOMAIN session[s] THEN session[s].jwt_token ELSE None

sysIdle ==
    /\ users = {}
    /\ createdLog = <<>>
    /\ clock = 0
    /\ session = [s \in Sessions |-> EmptyDict]
    /\ pc = [s \in Sessions |-> "idle"]
    /\ loc = [s \in Sessions |-> NoLocals]
    /\ logins = 0
    /\ adminOps = 0
    /\ ret = NoCall

Init == sysIdle /\ TkInit /\ TqInit

Return(s, op, val) ==
    /\ ret' = [s |-> s, op |-> op, val |-> val]
    /\ pc' = [pc EXCEPT ![s] = "idle"]
    /\ loc' = [loc EXCEPT ![s] = NoLocals]

\* login, lines 194-211, once authenticate_user has returned (True, None, user).
FinishLogin(s, user) ==
    IF user # None
    THEN /\ session' = [session EXCEPT ![s] =
                login_session(@, user, loc[s].username, loc[s].password, clock)]
         /\ Return(s, "login", [success |-> TRUE, error |-> NoError])
    ELSE /\ Return(s, "login", [success |-> FALSE, error |-> NoError])
         /\ UNCHANGED session

\* login -> authenticate_user, lines 43-64: the remote call, the early
\* returns, and the lookup by remote id.
LoginCall(s, username, password, outcome) ==
    /\ pc[s] = "idle"
    /\ OutcomePossible(username, password, outcome)
    /\ logins < MaxLogins
    /\ logins' = logins + 1
    /\ LET data == redmine_authenticate_user(username, password, outcome)
           early == authenticate_early_return(data)
       IN  IF ~early.success
           THEN /\ Return(s, "login", early)
                /\ UNCHANGED <<users, createdLog, clock, session, adminOps>>
           ELSE LET existing == get_user_by_redmine_id(users, data.user.id) IN
                /\ pc' = [pc EXCEPT ![s] =
                       IF existing # None THEN "update_last_login"
                       ELSE "get_user_count"]
                /\ loc' = [loc EXCEPT ![s] =
                       [NoLocals EXCEPT !.username = username,
                                        !.password = password,
                                        !.redmine_user_id = data.user.id,
                                        !.redmine_username = data.user.login,
                                        !.user = existing]]
                /\ ret' = NoCall
                /\ UNCHANGED <<users, createdLog, clock, session, adminOps>>

\* authenticate_user, lines 66-69 and 78, then the rest of login.
UpdateLastLogin(s) ==
    /\ pc[s] = "update_last_login"
    /\ users' = update_last_login(users, loc[s].user.id, clock)
    /\ FinishLogin(s, loc[s].user)
    /\ UNCHANGED <<createdLog, clock, logins, adminOps>>

\* create_user, line 79.
GetUserCount(s) ==
    /\ pc[s] = "get_user_count"
    /\ loc' = [loc EXCEPT ![s].count = get_user_count(users)]
    /\ pc' = [pc EXCEPT ![s] = "insert"]
    /\ ret' = NoCall
    /\ UNCHANGED <<users, createdLog, clock, session, logins, adminOps>>

\* create_user, lines 80-95; an IntegrityError is caught at
\* authenticate_user, line 80.
InsertUser(s) ==
    /\ pc[s] = "insert"
    /\ IF insert_violates_unique(users, loc[s].redmine_user_id)
       THEN /\ Return(s, "login",
                   [success |-> FALSE,
                    error |-> "Authentication error: UNIQUE constraint failed"])
            /\ UNCHANGED <<users, createdLog, clock, session, logins, adminOps>>
       ELSE LET role == role_for_count(loc[s].count) IN
            /\ users' = insert_user(users, loc[s].redmine_user_id,
                                    loc[s].redmine_username, role)
            /\ createdLog' = Append(createdLog,
                   LogEntry(users, loc[s].redmine_user_id, role))
            /\ loc' = [loc EXCEPT ![s].user_id = lastrowid(users)]
            /\ pc' = [pc EXCEPT ![s] = "get_user_by_id"]
            /\ ret' = NoCall
            /\ UNCHANGED <<clock, session, logins, adminOps>>

\* create_user, line 97, then the rest of login.
GetCreatedUser(s) ==
    /\ pc[s] = "get_user_by_id"
    /\ FinishLogin(s, get_user_by_id(users, loc[s].user_id))
    /\ UNCHANGED <<users, createdLog, clock, logins, adminOps>>

GetCurrentUser(s) ==
    /\ pc[s] = "idle"
    /\ session' = [session EXCEPT ![s] = get_current_user_state(@, clock)]
    /\ ret' = [s |-> s, op |-> "get_current_user",
               val |-> get_current_user(session[s], users, clock),
               token |-> StoredToken(s),
               store_read |-> get_current_user_reads_store(session[s], clock)]
    /\ UNCHANGED <<users, createdLog, clock, pc, loc, logins, adminOps>>

Logout(s) ==
    /\ pc[s] = "idle"
    /\ session' = [session EXCEPT ![s] = logout(@)]
    /\ ret' = [s |-> s, op |-> "logout", val |-> None,
               deleted |-> DOMAIN session[s] \cap session_keys_to_clear]
    /\ UNCHANGED <<users, createdLog, clock, pc, loc, logins, adminOps>>

\* Administrative calls on the table; the core does not check who calls.
DeleteUser(user_id) ==
    /\ users' = delete_user(users, user_id)
    /\ users' # users
    /\ adminOps < MaxAdminOps
    /\ adminOps' = adminOps + 1
    /\ ret' = [s |-> 0, op |-> "delete_user", val |-> TRUE]
    /\ UNCHANGED <<createdLog, clock, session, pc, loc, logins>>

UpdateUserRole(user_id, new_role) ==
    /\ users' = update_user_role(users, user_id, new_role)
    /\ users' # users
    /\ adminOps < MaxAdminOps
    /\ adminOps' = adminOps + 1
    /\ ret' = [s |-> 0, op |-> "update_user_role", val |-> TRUE]
    /\ UNCHANGED <<createdLog, clock, session, pc, loc, logins>>

\* Time passes between two requests: up to the start of a token's refresh
\* window, or a whole validity window.
TickSteps ==
    {token_expiry_hours - refresh_threshold_hours, token_expiry_hours}

Tick(hours) ==
    /\ clock + hours <= MaxClock
    /\ clock' = clock + hours
    /\ ret' = NoCall
    /\ UNCHANGED <<users, createdLog, session, pc, loc, logins, adminOps>>

\* Every row was inserted by a login, so no id exceeds MaxLogins.
UserIds == 1..MaxLogins

Next ==
    \/ \E s \in Sessions, username \in Logins, password \in Passwords,
          outcome \in RemoteOutcomes :
            LoginCall(s, username, password, outcome) /\ UNCHANGED <<tkVars, tqVars>>
    \/ \E s \in Sessions : UpdateLastLogin(s) /\ UNCHANGED <<tkVars, tqVars>>
    \/ \E s \in Sessions : GetUserCount(s) /\ UNCHANGED <<tkVars, tqVars>>
    \/ \E s \in Sessions : InsertUser(s) /\ UNCHANGED <<tkVars, tqVars>>
    \/ \E s \in Sessions : GetCreatedUser(s) /\ UNCHANGED <<tkVars, tqVars>>
    \/ \E s \in Sessions : GetCurrentUser(s) /\ UNCHANGED <<tkVars, tqVars>>
    \/ \E s \in Sessions : Logout(s) /\ UNCHANGED <<tkVars, tqVars>>
    \/ \E user_id \in UserIds : DeleteUser(user_id) /\ UNCHANGED <<tkVars, tqVars>>
    \/ \E user_id \in UserIds, new_role \in Roles :
            UpdateUserRole(user_id, new_role) /\ UNCHANGED <<tkVars, tqVars>>
    \/ \E hours \in TickSteps : Tick(hours) /\ UNCHANGED <<tkVars, tqVars>>

(***************************************************************************)
(* The table alone, its operations called one after another.               *)
(***************************************************************************)
SeqInputs == {<<101, "alice">>, <<102, "bob">>, <<103, "carol">>}

\* create_user as a whole, lines 79-97.
SeqCreateUser(redmine_user_id, username) ==
    /\ Len(createdLog) < MaxSeqCreates
    /\ IF insert_violates_unique(users, redmine_user_id)
       THEN /\ ret' = [s |-> 0, op |-> "create_user",
                       val |-> Raised("IntegrityError")]
            /\ UNCHANGED <<users, createdLog>>
       ELSE LET role == role_for_count(get_user_count(users)) IN
            /\ users' = insert_user(users, redmine_user_id, username, role)
            /\ createdLog' = Append(createdLog,
                   LogEntry(users, redmine_user_id, role))
            /\ ret' = [s |-> 0, op |-> "create_user",
                       val |-> get_user_by_id(users', lastrowid(users))]
    /\ UNCHANGED <<clock, session, pc, loc, logins, adminOps>>

SeqDeleteUser(user_id) ==
    /\ users' = delete_user(users, user_id)
    /\ users' # users
    /\ ret' = [s |-> 0, op |-> "delete_user", val |-> TRUE]
    /\ UNCHANGED <<createdLog, clock, session, pc, loc, logins, adminOps>>

SeqUpdateUserRole(user_id, new_role) ==
    /\ users' = update_user_role(users, user_id, new_role)
    /\ ret' = [s |-> 0, op |-> "update_user_role", user_id |-> user_id,
               new_role |-> new_role,
               val |-> update_user_role_returns(users, user_id, new_role)]
    /\ UNCHANGED <<createdLog, clock, session, pc, loc, logins, adminOps>>

SeqUserIds == 1..MaxSeqCreates

\* The roles a caller may pass: the two the table accepts and one it does not.
RoleInputs == Roles \cup {"superuser"}

SeqNext ==
    \/ \E input \in SeqInputs :
            SeqCreateUser(input[1], input[2]) /\ UNCHANGED <<tkVars, tqVars>>
    \/ \E user_id \in SeqUserIds : SeqDeleteUser(user_id) /\ UNCHANGED <<tkVars, tqVars>>
    \/ \E user_id \in SeqUserIds, new_role \in RoleInputs :
            SeqUpdateUserRole(user_id, new_role) /\ UNCHANGED <<tkVars, tqVars>>

(***************************************************************************)
(* The sessions with every handler run to its end before the next one       *)
(* starts: login as a whole, the tickets page, and the table's              *)
(* administrative calls in between.                                         *)
(***************************************************************************)
\* login, lines 194-211.
SessLogin(s, username, password, outcome) ==
    /\ OutcomePossible(username, password, outcome)
    /\ logins < MaxLogins
    /\ logins' = logins + 1
    /\ LET r == authenticate_user(users, username, password, outcome, clock) IN
       /\ users' = r.users
       /\ createdLog' = createdLog \o r.log
       /\ IF r.success /\ r.user # None
          THEN /\ session' = [session EXCEPT ![s] =
                      login_session(@, r.user, username, password, clock)]
               /\ ret' = [s |-> s, op |-> "login",
                          val |-> [success |-> TRUE, error |-> NoError]]
          ELSE /\ ret' = [s |-> s, op |-> "login",
                          val |-> [success |-> FALSE, error |-> r.error]]
               /\ UNCHANGED session
    /\ UNCHANGED <<clock, pc, loc, adminOps>>

\* Something other than AuthService overwrites st.session_state.jwt_token
\* (the dict is open to all code of the session) with what a party without
\* the secret key can make of the token.
TamperStoredToken(s, kind) ==
    /\ StoredToken(s) # None
    /\ StoredToken(s).fmt = "jws"
    /\ StoredToken(s).sig = HMAC(secret_key, StoredToken(s).body)
    /\ session' = [session EXCEPT ![s] =
           DictSet(@, "jwt_token", Tamper(kind, StoredToken(s)))]
    /\ ret' = NoCall
    /\ UNCHANGED <<users, createdLog, clock, pc, loc, logins, adminOps>>

\* show_tickets_page, lines 18-22: require_authentication, which stops the
\* script when nobody is logged in, then get_current_user once more.
PageStopped == [mode |-> "stopped", auth |-> <<>>,
                error |-> "Please log in to access this page"]

\* The tickets page up to the request it sends: the ticket list
\* (get_tickets) or the submitted create form (create_ticket).
TicketRequest(s, kind, api_key) ==
    /\ LET state1 == get_current_user_state(session[s], clock) IN
       IF get_current_user(session[s], users, clock) = None
       THEN /\ session' = [session EXCEPT ![s] = state1]
            /\ ret' = [s |-> s, op |-> kind, val |-> PageStopped,
                       api_key |-> api_key]
       ELSE LET current_user == get_current_user(state1, users, clock)
                state2 == get_current_user_state(state1, clock)
                chosen == select_credentials(get_user_credentials(state2),
                                             current_user)
            IN  /\ session' = [session EXCEPT ![s] = state2]
                /\ ret' = [s |-> s, op |-> kind,
                           val |-> request_auth(chosen.use_api_key, api_key,
                                                chosen.username, chosen.password),
                           api_key |-> api_key]
    /\ UNCHANGED <<users, createdLog, clock, pc, loc, logins, adminOps>>

\* show_credential_form, lines 452-461: "Save Credentials".
SaveCredentials(s, username, password) ==
    /\ LET state1 == get_current_user_state(session[s], clock) IN
       IF get_current_user(session[s], users, clock) = None
       THEN /\ session' = [session EXCEPT ![s] = state1]
            /\ ret' = [s |-> s, op |-> "save_credentials", val |-> PageStopped]
       ELSE LET state2 == get_current_user_state(state1, clock) IN
            IF username = "" \/ password = ""
            THEN /\ session' = [session EXCEPT ![s] = state2]
                 /\ ret' = [s |-> s, op |-> "save_credentials",
                            val |-> [mode |-> "form", auth |-> <<>>,
                                     error |-> "Both username and password are required"]]
            ELSE /\ session' = [session EXCEPT ![s] =
                        store_user_credentials(state2, username, password)]
                 /\ ret' = [s |-> s, op |-> "save_credentials",
                            val |-> [mode |-> "form", auth |-> <<>>,
                                     error |-> NoError]]
    /\ UNCHANGED <<users, createdLog, clock, pc, loc, logins, adminOps>>

\* show_credential_form, lines 463-467: "Clear Credentials".
ClearCredentials(s) ==
    /\ LET state1 == get_current_user_state(session[s], clock) IN
       IF get_current_user(session[s], users, clock) = None
       THEN /\ session' = [session EXCEPT ![s] = state1]
            /\ ret' = [s |-> s, op |-> "clear_credentials", val |-> PageStopped]
       ELSE LET state2 == get_current_user_state(state1, clock) IN
            /\ session' = [session EXCEPT ![s] = clear_user_credentials(state2)]
            /\ ret' = [s |-> s, op |-> "clear_credentials",
                       val |-> [mode |-> "form", auth |-> <<>>, error |-> NoError],
                       deleted |-> DOMAIN state2 \cap
                                   {"redmine_username", "redmine_password"}]
    /\ UNCHANGED <<users, createdLog, clock, pc, loc, logins, adminOps>>

\* is_authenticated and is_admin called on their own; each runs
\* get_current_user, with what that does to the session.
IsAuthenticated(s) ==
    /\ session' = [session EXCEPT ![s] = get_current_user_state(@, clock)]
    /\ ret' = [s |-> s, op |-> "is_authenticated",
               val |-> is_authenticated(session[s], users, clock),
               token |-> StoredToken(s)]
    /\ UNCHANGED <<users, createdLog, clock, pc, loc, logins, adminOps>>

IsAdmin(s) ==
    /\ session' = [session EXCEPT ![s] = get_current_user_state(@, clock)]
    /\ ret' = [s |-> s, op |-> "is_admin",
               val |-> is_admin(session[s], users, clock),
               token |-> StoredToken(s)]
    /\ UNCHANGED <<users, createdLog, clock, pc, loc, logins, adminOps>>

TicketRequests == {"get_tickets", "create_ticket"}

\* One browser session, followed through its handlers.
SessSessions == {1}

SessNext ==
    \/ \E s \in SessSessions, username \in Logins, password \in Passwords,
          outcome \in RemoteOutcomes :
            SessLogin(s, username, password, outcome) /\ UNCHANGED <<tkVars, tqVars>>
    \/ \E s \in SessSessions : GetCurrentUser(s) /\ UNCHANGED <<tkVars, tqVars>>
    \/ \E s \in SessSessions : Logout(s) /\ UNCHANGED <<tkVars, tqVars>>
    \/ \E s \in SessSessions : IsAuthenticated(s) /\ UNCHANGED <<tkVars, tqVars>>
    \/ \E s \in SessSessions : IsAdmin(s) /\ UNCHANGED <<tkVars, tqVars>>
    \/ \E s \in SessSessions, kind \in TamperKinds :
            TamperStoredToken(s, kind) /\ UNCHANGED <<tkVars, tqVars>>
    \/ \E s \in SessSessions, kind \in TicketRequests, api_key \in ApiKeys :
            TicketRequest(s, kind, api_key) /\ UNCHANGED <<tkVars, tqVars>>
    \/ \E s \in SessSessions, username \in Logins, password \in Passwords \cup {""} :
            SaveCredentials(s, username, password) /\ UNCHANGED <<tkVars, tqVars>>
    \/ \E s \in SessSessions : ClearCredentials(s) /\ UNCHANGED <<tkVars, tqVars>>
    \/ \E user_id \in UserIds : DeleteUser(user_id) /\ UNCHANGED <<tkVars, tqVars>>
    \/ \E user_id \in UserIds, new_role \in Roles :
            UpdateUserRole(user_id, new_role) /\ UNCHANGED <<tkVars, tqVars>>
    \/ \E hours \in TickSteps : Tick(hours) /\ UNCHANGED <<tkVars, tqVars>>

(***************************************************************************)
(* The user management page (show_admin_users), one script run per click,  *)
(* the runs of different sessions interleaved.                             *)
(***************************************************************************)
\* require_admin: True when the page goes on, False when it stops.
require_admin(state, table, now) ==
    is_authenticated(state, table, now)
        /\ is_admin(get_current_user_state(state, now), table, now)

NoAction == "None"

\* Lines 117-119: the action keys the page adds to the session.
init_user_action(state) ==
    IF "user_action" \in DOMAIN state THEN state
    ELSE DictSet(DictSet(state, "user_action", NoAction),
                 "user_action_id", NULL)

clear_user_action(state) ==
    DictSet(DictSet(state, "user_action", NoAction), "user_action_id", NULL)

AdminButtons == {"promote", "demote", "delete"}

\* Lines 143-168: the buttons one run renders, from the rows it has read.
admin_buttons(all_users, current_user) ==
    {[button |-> "promote", user_id |-> user.id] :
        user \in {u \in all_users : u.id # current_user.id /\ u.role = "user"}}
    \cup {[button |-> "demote", user_id |-> user.id] :
        user \in {u \in all_users : u.id # current_user.id /\ u.role = "admin"}}
    \cup {[button |-> "delete", user_id |-> user.id] :
        user \in {u \in all_users : u.id # current_user.id}}

AdminStopped == [mode |-> "stopped", error |-> "Admin access required"]

\* A run started by a click on a user card button: require_admin,
\* get_current_user and get_all_users (lines 16-47, read together), then
\* the button. Promote and demote go on to update_user_role; delete only
\* records the pending deletion in the session.
AdminClick(s, button, user_id) ==
    /\ pc[s] = "idle"
    /\ adminOps < MaxPageActions
    /\ adminOps' = adminOps + 1
    /\ LET state1 == get_current_user_state(session[s], clock) IN
       IF ~require_admin(session[s], users, clock)
       THEN /\ session' = [session EXCEPT ![s] = state1]
            /\ ret' = [s |-> s, op |-> "admin_page", val |-> AdminStopped]
            /\ UNCHANGED <<pc, loc>>
       ELSE LET current_user == get_current_user(state1, users, clock)
                state2 == init_user_action(
                              get_current_user_state(state1, clock))
            IN  IF [button |-> button, user_id |-> user_id]
                       \notin admin_buttons(users, current_user)
                THEN /\ session' = [session EXCEPT ![s] = state2]
                     /\ ret' = [s |-> s, op |-> "admin_page",
                                val |-> [mode |-> "rendered", error |-> NoError]]
                     /\ UNCHANGED <<pc, loc>>
                ELSE IF button = "delete"
                THEN /\ session' = [session EXCEPT ![s] =
                            DictSet(DictSet(state2, "user_action", "delete"),
                                    "user_action_id", user_id)]
                     /\ ret' = [s |-> s, op |-> "admin_page",
                                val |-> [mode |-> "confirm", error |-> NoError]]
                     /\ UNCHANGED <<pc, loc>>
                ELSE /\ session' = [session EXCEPT ![s] = state2]
                     /\ pc' = [pc EXCEPT ![s] = button]
                     /\ loc' = [loc EXCEPT ![s] =
                                   [NoLocals EXCEPT !.user_id = user_id]]
                     /\ ret' = NoCall
    /\ UNCHANGED <<users, createdLog, clock, logins>>

\* Lines 148 and 156: update_user_role, with the rows as they are now.
AdminUpdateUserRole(s) ==
    /\ pc[s] \in {"promote", "demote"}
    /\ LET new_role == IF pc[s] = "promote" THEN "admin" ELSE "user" IN
       /\ users' = update_user_role(users, loc[s].user_id, new_role)
       /\ Return(s, pc[s],
                 update_user_role_returns(users, loc[s].user_id, new_role))
    /\ UNCHANGED <<createdLog, clock, session, logins, adminOps>>

\* A run started by a click in the confirmation dialog (lines 175-194),
\* which is there while the session holds a pending deletion.
AdminConfirm(s, yes) ==
    /\ pc[s] = "idle"
    /\ "user_action" \in DOMAIN session[s]
    /\ session[s].user_action = "delete"
    /\ adminOps < MaxPageActions
    /\ adminOps' = adminOps + 1
    /\ LET state1 == get_current_user_state(session[s], clock) IN
       IF ~require_admin(session[s], users, clock)
       THEN /\ session' = [session EXCEPT ![s] = state1]
            /\ ret' = [s |-> s, op |-> "admin_page", val |-> AdminStopped]
            /\ UNCHANGED <<pc, loc>>
       ELSE LET state2 == get_current_user_state(state1, clock) IN
            IF yes
            THEN /\ session' = [session EXCEPT ![s] = state2]
                 /\ pc' = [pc EXCEPT ![s] = "delete_user"]
                 /\ loc' = [loc EXCEPT ![s] =
                        [NoLocals EXCEPT !.user_id = state2.user_action_id]]
                 /\ ret' = NoCall
            ELSE /\ session' = [session EXCEPT ![s] = clear_user_action(state2)]
                 /\ ret' = [s |-> s, op |-> "admin_page",
                            val |-> [mode |-> "cancelled", error |-> NoError]]
                 /\ UNCHANGED <<pc, loc>>
    /\ UNCHANGED <<users, createdLog, clock, logins>>

\* Lines 181-190: delete_user, then the pending deletion is cleared.
AdminDeleteUser(s) ==
    /\ pc[s] = "delete_user"
    /\ users' = delete_user(users, loc[s].user_id)
    /\ session' = [session EXCEPT ![s] = clear_user_action(@)]
    /\ Return(s, "delete_user", users' # users)
    /\ UNCHANGED <<createdLog, clock, logins, adminOps>>

\* login from the login page, between two runs of the session's script.
AdminLogin(s, username, password, outcome) ==
    /\ pc[s] = "idle"
    /\ SessLogin(s, username, password, outcome)

AdminNext ==
    \/ \E s \in Sessions, username \in Logins, password \in Passwords,
          outcome \in RemoteOutcomes :
            AdminLogin(s, username, password, outcome) /\ UNCHANGED <<tkVars, tqVars>>
    \/ \E s \in Sessions, button \in AdminButtons, user_id \in UserIds :
            AdminClick(s, button, user_id) /\ UNCHANGED <<tkVars, tqVars>>
    \/ \E s \in Sessions : AdminUpdateUserRole(s) /\ UNCHANGED <<tkVars, tqVars>>
    \/ \E s \in Sessions, yes \in BOOLEAN :
            AdminConfirm(s, yes) /\ UNCHANGED <<tkVars, tqVars>>
    \/ \E s \in Sessions : AdminDeleteUser(s) /\ UNCHANGED <<tkVars, tqVars>>

AdminSpec == Init /\ [][AdminNext]_vars

SessSpec == Init /\ [][SessNext]_vars

SeqSpec == Init /\ [][SeqNext]_vars

Spec == Init /\ [][Next]_vars

TkSpec == Init /\ [][TkNext]_vars

TqSpec == Init /\ [][TqNext]_vars

QuerySpec == Init /\ [][QueryNext]_vars

(***************************************************************************)
(* Properties                                                              *)
(***************************************************************************)
Deletions == Len(createdLog) - Cardinality(users)

AdminsAtCreation == {i \in 1..Len(createdLog) : createdLog[i].role = "admin"}

\* C1: created one after another into an empty table with no deletion, the
\* first user gets role admin and every later user gets role user, so
\* exactly one user is admin by default.
C1_FirstUserAdminRestUser ==
    (Deletions = 0 /\ Len(createdLog) >= 1) =>
        /\ createdLog[1].role = "admin"
        /\ \A i \in 2..Len(createdLog) : createdLog[i].role = "user"
        /\ Cardinality(AdminsAtCreation) = 1

C1_Witness ==
    /\ Deletions = 0
    /\ Len(createdLog) = 3
    /\ ret.op = "create_user"

\* C2: when create_user calls of different remote identities run concurrently
\* against an empty table (and nothing is deleted), at most one of the users
\* created gets role admin.
C2_AtMostOneAdminFromConcurrentCreates ==
    Deletions = 0 => Cardinality(AdminsAtCreation) <= 1

TripleOf(payload) == <<payload.user_id, payload.username, payload.role>>

TkIntact == tk_args # None /\ tk_token = tk_args.token

\* C4: verifying a token right after issuing it returns a payload with the
\* user id, username and role it was issued for.
C4_VerifyAfterIssueReturnsTriple ==
    (tk_out.op = "verify_token" /\ TkIntact /\ tk_now = tk_args.at) =>
        /\ ~IsRaised(tk_out.val)
        /\ tk_out.val # None
        /\ TripleOf(tk_out.val) = <<tk_args.user_id, tk_args.username, tk_args.role>>

C4_Witness ==
    /\ tk_out.op = "verify_token"
    /\ TkIntact
    /\ tk_now = tk_args.at
    /\ tk_args.role = "admin"

\* C5: a token is issued with expires-at = issued-at + 12 hours; verify
\* returns invalid for every token whose expires-at is at or before now,
\* also when its signature is right, and a payload only while now is before
\* expires-at.
C5_ExpiredTokenNeverVerifies ==
    /\ tk_out.op = "create_token" =>
           /\ tk_out.val.body.iat = tk_now
           /\ tk_out.val.body.exp = tk_out.val.body.iat + 12
    /\ tk_out.op = "verify_token" =>
           /\ (tk_token # None /\ tk_token.fmt = "jws" /\ tk_token.body.exp <= tk_now)
                  => tk_out.val = None
           /\ (~IsRaised(tk_out.val) /\ tk_out.val # None) => tk_now < tk_out.val.exp

C5_Witness ==
    /\ tk_out.op = "verify_token"
    /\ TkIntact
    /\ tk_token.body.exp = tk_now
    /\ tk_out.val = None

\* C6: should_refresh_token is true exactly when the token verifies and now
\* is at or after expires-at minus 1 hour; it is false for every token that
\* fails verify and for every valid token with more than 1 hour left.
C6_ShouldRefreshIffValidAndInLastHour ==
    tk_out.op = "should_refresh_token" =>
        /\ tk_out.val \in BOOLEAN
        /\ tk_out.val = TRUE <=>
               /\ verify_token(tk_token, tk_now) # None
               /\ tk_now >= tk_token.body.exp - 1

C6_Witness ==
    /\ tk_out.op = "should_refresh_token"
    /\ tk_out.val = TRUE
    /\ tk_now = tk_token.body.exp - 1

HasExpiredToken(s) == StoredToken(s) # None /\ StoredToken(s).body.exp <= clock

\* C7: once the expires-at of a session's token has passed, refresh returns
\* none for it and should_refresh is false, a get_current_user call leaves
\* the session without a token, and the session holds a token that verifies
\* again only after a login of that session has succeeded.
C7_ExpiredTokenOnlyReplacedByLogin ==
    [][\A s \in Sessions :
          HasExpiredToken(s) =>
              /\ refresh_token(StoredToken(s), clock) = None
              /\ should_refresh_token(StoredToken(s), clock) = FALSE
              /\ (ret'.op = "get_current_user" /\ ret'.s = s) =>
                     /\ "jwt_token" \notin DOMAIN session'[s]
                     /\ ret'.val = None
              /\ (StoredToken(s)' # None /\ verify_token(StoredToken(s)', clock') # None) =>
                     /\ ret'.op = "login"
                     /\ ret'.s = s
                     /\ ret'.val.success]_vars

C7_Witness ==
    \E s \in Sessions :
        /\ ret.op = "login" /\ ret.s = s /\ ret.val.success
        /\ clock >= 12
        /\ StoredToken(s).body.iat = clock
        /\ \E t \in Sessions \ {s} : HasExpiredToken(t)

C9_VerifyNeverRaisesOneInvalidResult ==
    /\ tk_out.op = "verify_token" =>
           /\ ~IsRaised(tk_out.val)
           /\ jwt_decode(tk_token, secret_key, tk_now).exc # "none" => tk_out.val = None
    /\ tk_out.op = "is_token_expired" =>
           /\ tk_out.val \in BOOLEAN
           /\ tk_out.val = TRUE <=> jwt_decode(tk_token, secret_key, tk_now).exc # "none"

C9_Witness ==
    /\ tk_out.op = "verify_token"
    /\ tk_out.val = None
    /\ jwt_decode(tk_token, secret_key, tk_now).exc = "InvalidSignatureError"
    /\ tk_token.body.exp > tk_now

FailedOutcomes == {"rejected", "unreachable", "no_id"}

\* C10: a login from a session without any state that fails because the
\* remote rejects the credentials, cannot be reached or names no identity id
\* returns (False, message), leaves the session without token, derived
\* fields and cached credentials, and leaves the table unchanged.
C10_FailedLoginLeavesAnonymousAndStore ==
    [][\A s \in Sessions, username \in Logins, password \in Passwords,
          outcome \in FailedOutcomes :
          (session[s] = EmptyDict /\ LoginCall(s, username, password, outcome)) =>
              /\ ret' = [s |-> s, op |-> "login", val |-> ret'.val]
              /\ ret'.val.success = FALSE
              /\ ret'.val.error # NoError
              /\ session'[s] = EmptyDict
              /\ users' = users
              /\ pc'[s] = "idle"]_vars

C10_Witness ==
    /\ ret.op = "login"
    /\ ret.val.success = FALSE
    /\ ret.val.error = "Unable to retrieve user information from Redmine"
    /\ session[ret.s] = EmptyDict
    /\ users # {}

\* The message login reports when the remote call for these credentials
\* ends in `outcome`.
LoginFailureMessage(username, password, outcome) ==
    authenticate_early_return(
        redmine_authenticate_user(username, password, outcome)).error

\* C11: a login that fails because the remote tracker cannot be reached
\* returns (False, message) without raising, and its message differs from the
\* message of a login whose credentials the remote rejects.
C11_UnreachableMessageDiffersFromRejected ==
    [][\A s \in Sessions, username \in Logins, password \in Passwords :
          LoginCall(s, username, password, "unreachable") =>
              /\ ret'.op = "login"
              /\ ~IsRaised(ret'.val)
              /\ ret'.val.success = FALSE
              /\ \A wrong \in Passwords \ {PasswordOf(username)} :
                     ret'.val.error # LoginFailureMessage(username, wrong, "rejected")]_vars

\* The step is the return of a login of session s that succeeded.
LoginSucceeds(s) == ret'.op = "login" /\ ret'.s = s /\ ret'.val.success

\* The step is a get_current_user call of session s.
CurrentUserCalled(s) == ret'.op = "get_current_user" /\ ret'.s = s

SessionKeys ==
    {"jwt_token", "user_id", "username", "user_role",
     "redmine_username", "redmine_password"}

\* C12: with logins run one after another, a successful login whose remote
\* id has a row adds no row and changes nothing of that row but last_login
\* (id and role stay); one whose remote id has no row adds exactly one row;
\* no other row changes, and the table holds exactly one row for the remote
\* id that logged in and never two rows for one remote id.
C12_LoginIsUpsertByRemoteId ==
    [][\A s \in SessSessions :
          LoginSucceeds(s) =>
              LET rid == RemoteIdOf(session'[s].redmine_username)
                  before == {row \in users : row.redmine_user_id = rid}
                  after == {row \in users' : row.redmine_user_id = rid}
              IN  /\ Cardinality(after) = 1
                  /\ \A row \in users : row.redmine_user_id # rid => row \in users'
                  /\ before # {} =>
                         /\ Cardinality(users') = Cardinality(users)
                         /\ \A b \in before, a \in after :
                                /\ a.id = b.id
                                /\ a.role = b.role
                                /\ a.username = b.username
                                /\ a.last_login = clock
                  /\ before = {} => Cardinality(users') = Cardinality(users) + 1
                  /\ \A r1, r2 \in users' :
                         r1.redmine_user_id = r2.redmine_user_id => r1 = r2]_vars

C12_Witness ==
    /\ ret.op = "login"
    /\ ret.val.success
    /\ logins = 2
    /\ Len(createdLog) = 1
    /\ \E row \in users :
           /\ row.role = "admin"
           /\ row.last_login = clock
           /\ clock > 0

C14_InvalidTokenClearsSession ==
    [][\A s \in SessSessions :
          CurrentUserCalled(s) =>
              /\ (StoredToken(s) # None
                      /\ verify_token(StoredToken(s), clock) = None) =>
                     /\ ret'.val = None
                     /\ DOMAIN session'[s] \cap SessionKeys = {}
              /\ StoredToken(s) = None =>
                     /\ ret'.val = None
                     /\ ret'.store_read = FALSE
                     /\ session'[s] = session[s]]_vars

C14_Witness ==
    /\ ret.op = "get_current_user"
    /\ ret.token # None
    /\ ret.token.fmt = "garbage"
    /\ ret.val = None
    /\ DOMAIN session[ret.s] = {}

\* C15: a get_current_user call on a stored token that verifies replaces it,
\* when now >= expires-at - 1 hour, by a token with the same user id,
\* username and role and expires-at = now + 12 hours, and leaves it alone
\* when more than 1 hour is left; either way it returns the row of the
\* token's user id.
C15_CurrentUserRotatesTokenInLastHour ==
    [][\A s \in SessSessions :
          (CurrentUserCalled(s) /\ StoredToken(s) # None
               /\ verify_token(StoredToken(s), clock) # None) =>
              LET old == StoredToken(s)
                  new == StoredToken(s)'
              IN  /\ ret'.val = get_user_by_id(users, old.body.user_id)
                  /\ clock >= old.body.exp - 1 =>
                         /\ new # None
                         /\ new # old
                         /\ TripleOf(new.body) = TripleOf(old.body)
                         /\ new.body.exp = clock + 12
                         /\ verify_token(new, clock) = new.body
                  /\ clock < old.body.exp - 1 => new = old]_vars

C15_Witness ==
    /\ ret.op = "get_current_user"
    /\ ret.val # None
    /\ StoredToken(ret.s) # None
    /\ StoredToken(ret.s) # ret.token
    /\ StoredToken(ret.s).body.exp = clock + 12
    /\ clock = ret.token.body.exp - 1

\* C16: logout leaves the session without token, derived user fields and
\* cached credentials whatever it held; a second logout changes nothing;
\* while the session holds no token get_current_user returns None, and only
\* a login that succeeds gives the session a token again.
C16_LogoutClearsAndIsIdempotent ==
    [][\A s \in SessSessions :
          /\ (ret'.op = "logout" /\ ret'.s = s) =>
                 /\ DOMAIN session'[s] \cap SessionKeys = {}
                 /\ logout(session'[s]) = session'[s]
          /\ (ret.op = "logout" /\ ret.s = s /\ ret'.op = "logout" /\ ret'.s = s) =>
                 session' = session
          /\ (StoredToken(s) = None /\ CurrentUserCalled(s)) => ret'.val = None
          /\ (StoredToken(s) = None /\ StoredToken(s)' # None) => LoginSucceeds(s)]_vars

C16_Witness ==
    /\ ret.op = "logout"
    /\ ret.deleted = SessionKeys
    /\ DOMAIN session[ret.s] = {}
    /\ users # {}

HasCachedCredentials(state) ==
    /\ "redmine_username" \in DOMAIN state
    /\ "redmine_password" \in DOMAIN state
    /\ state.redmine_username # ""
    /\ state.redmine_password # ""

\* The step is a ticket query or creation of session s that got as far as
\* its request.
TicketRequested(s) ==
    ret'.op \in TicketRequests /\ ret'.s = s /\ ret'.val.mode # "stopped"

C18_SharedKeyOffsetAndEstimatedTotal ==
    tq_out.op = "get_tickets" =>
        /\ tq_out.offset = (tq_out.page - 1) * tq_out.per_page
        /\ tq_out.val = (tq_out.page - 1) * tq_out.per_page + tq_out.n
                            + (IF tq_out.n = tq_out.per_page THEN 1 ELSE 0)
        /\ (tq_out.page = 3 /\ tq_out.per_page = 15) =>
               /\ tq_out.offset = 30
               /\ tq_out.n = 15 => tq_out.val = 46
               /\ tq_out.n < 15 => tq_out.val = 30 + tq_out.n

C18_Witness ==
    /\ tq_out.op = "get_tickets"
    /\ tq_out.page = 3
    /\ tq_out.per_page = 15
    /\ tq_out.n = 15
    /\ tq_out.offset = 30
    /\ tq_out.val = 46

\* The date a "%Y-%m-%d" string denotes.
ParseDate(text) == [year |-> text[1], month |-> text[2], day |-> text[3]]

\* Ordinal 1 (0001-01-01) is a Monday.
IsMonday(date) == toordinal(date) % 7 = 1

IsSunday(date) == toordinal(date) % 7 = 0

\* C19: on every date, this_week yields the Monday and the Sunday of the week
\* that holds the date, last_week the Monday and the Sunday of the week
\* 7 days earlier, both as an inclusive range "><"; last week's Sunday is the
\* day before this week's Monday.
C19_WeekFiltersAreMondayToSundayAndAdjacent ==
    (tq_out.op = "date_filter" /\ tq_out.filter \in {"this_week", "last_week"}) =>
        LET start == ParseDate(tq_out.val.v[1])
            end == ParseDate(tq_out.val.v[2])
            back == IF tq_out.filter = "last_week" THEN 7 ELSE 0
            this_week == date_filter_params("this_week", tq_today)
            last_week == date_filter_params("last_week", tq_today)
        IN  /\ tq_out.val.f = "created_on"
            /\ tq_out.val.op = "><"
            /\ Len(tq_out.val.v) = 2
            /\ IsMonday(start)
            /\ IsSunday(end)
            /\ toordinal(end) = toordinal(start) + 6
            /\ toordinal(start) <= toordinal(tq_today) - back
            /\ toordinal(tq_today) - back <= toordinal(end)
            /\ toordinal(ParseDate(last_week.v[2])) + 1
                   = toordinal(ParseDate(this_week.v[1]))

\* Wednesday 3 January 2024: last week is 25 to 31 December 2023.
C19_Witness ==
    /\ tq_out.op = "date_filter"
    /\ tq_out.filter = "last_week"
    /\ tq_today = [year |-> 2024, month |-> 1, day |-> 3]
    /\ tq_out.val.v = <<(<<2023, 12, 25>>), (<<2023, 12, 31>>)>>
    /\ date_filter_params("this_week", tq_today).v
           = <<(<<2024, 1, 1>>), (<<2024, 1, 7>>)>>

\* C20: on every date of every month, last_month yields the lower bound
\* ">=" first day of the previous calendar month (December of the previous
\* year when the date is in January) and no upper bound.
C20_LastMonthIsFirstDayOfPreviousMonth ==
    (tq_out.op = "date_filter" /\ tq_out.filter = "last_month") =>
        /\ ~IsRaised(tq_out.val)
        /\ tq_out.val.op = ">="
        /\ tq_out.val.v =
               <<IF tq_today.month = 1
                 THEN <<tq_today.year - 1, 12, 1>>
                 ELSE <<tq_today.year, tq_today.month - 1, 1>>>>

\* C21: whatever the status filter, date filter, date, page, credentials and
\* remote outcome, get_tickets returns (tickets, total, error) and does not
\* raise; when the remote call fails, and whenever error is set, tickets is
\* empty and total is 0.
C21_QueryNeverRaisesAndFailuresAreEmpty ==
    tq_out.op = "query" =>
        /\ ~IsRaised(tq_out.val)
        /\ tq_out.outcome # "ok" => tq_out.val.error # NoError
        /\ tq_out.val.error # NoError =>
               /\ tq_out.val.tickets = <<>>
               /\ tq_out.val.total_count = 0

\* C22: create_ticket sends "{candidate_name} ({stack})" as subject when
\* both are non-empty, followed by " - {subject}" only if subject is
\* non-empty and differs from that prefix; otherwise it sends subject as
\* given.
C22_CreateTicketSubjectNaming ==
    (tq_out.op = "create_ticket" /\ tq_out.val.requests # <<>>) =>
        LET sent == tq_out.val.requests[1].params.subject IN
        /\ (tq_out.candidate_name = "Jane Doe" /\ tq_out.stack = "Python") =>
               /\ tq_out.subject = "Fix bug" => sent = "Jane Doe (Python) - Fix bug"
               /\ tq_out.subject = "" => sent = "Jane Doe (Python)"
               /\ tq_out.subject = "Jane Doe (Python)" => sent = "Jane Doe (Python)"
        /\ (tq_out.candidate_name = "" \/ tq_out.stack = "") =>
               sent = tq_out.subject
        /\ tq_out.val.error = NoError => tq_out.val.ticket = sent

C22_Witness ==
    /\ tq_out.op = "create_ticket"
    /\ tq_out.subject = "Fix bug"
    /\ tq_out.val.error = NoError
    /\ tq_out.val.ticket = "Jane Doe (Python) - Fix bug"
    /\ tq_out.val.requests[1].params.subject = "Jane Doe (Python) - Fix bug"

\* C24: every issue query that get_tickets sends with the shared API key for
\* the user's own tickets carries assigned_to_id = the remote id of the
\* user's login, however the lookup of that login ends.
C24_SharedKeyQueryCarriesAssignedToFilter ==
    (tq_out.op = "query" /\ ~IsRaised(tq_out.val)) =>
        \A i \in 1..Len(tq_out.val.requests) :
            LET request == tq_out.val.requests[i] IN
            (request.url = "/issues.json"
                 /\ request.auth[1] = "X-Redmine-API-Key") =>
                /\ "assigned_to_id" \in DOMAIN request.params
                /\ request.params.assigned_to_id = RemoteIdOf(tq_out.caller.username)

\* C23: update_user_role with a role other than admin and user returns False
\* and leaves every row as it was; update_user_role with an id no row has
\* returns False and leaves every row as it was; every role stored in the
\* table is admin or user.
C23_SetRoleValidatesRoleAndId ==
    /\ [](\A row \in users : row.role \in {"admin", "user"})
    /\ [][\A user_id \in SeqUserIds, new_role \in RoleInputs :
            SeqUpdateUserRole(user_id, new_role) =>
                /\ new_role \notin {"admin", "user"} =>
                        ret'.val = FALSE /\ users' = users
                /\ (\A row \in users : row.id # user_id) =>
                        ret'.val = FALSE /\ users' = users
                /\ (new_role \in {"admin", "user"}
                        /\ \E row \in users : row.id = user_id) =>
                        /\ ret'.val = TRUE
                        /\ \E row \in users' :
                               row.id = user_id /\ row.role = new_role]_vars

C23_Witness ==
    /\ ret.op = "update_user_role"
    /\ ret.new_role = "superuser"
    /\ ret.val = FALSE
    /\ \E row \in users : row.id = ret.user_id /\ row.role = "admin"

\* The columns of a row of the users table that hold text.
RowTexts(row) == {row.username, row.role}

\* What the session holds outside the credential cache: the derived user
\* fields and the claims of the token.
SessionTextsOutsideCache(state) ==
    {state[k] : k \in DOMAIN state \cap {"username", "user_role"}}
        \cup (IF "jwt_token" \in DOMAIN state /\ state.jwt_token.fmt = "jws"
              THEN {state.jwt_token.body.username, state.jwt_token.body.role}
              ELSE {})

\* C25: the password given to login is held only under the session's
\* credential keys: in every state reached by login, get_current_user,
\* saving and clearing credentials, and logout, no row of the users table,
\* no other session field and no token claim holds a password; and after
\* logout or clear_user_credentials the session holds neither credential key.
C25_PasswordOnlyInCredentialCache ==
    /\ [](/\ \A row \in users : RowTexts(row) \cap Passwords = {}
          /\ \A s \in SessSessions :
                /\ SessionTextsOutsideCache(session[s]) \cap Passwords = {}
                /\ "redmine_username" \in DOMAIN session[s] =>
                       session[s].redmine_username \notin Passwords)
    /\ [][\A s \in SessSessions :
            ((ret'.op = "logout" /\ ret'.s = s)
                \/ (ret'.op = "clear_credentials" /\ ret'.s = s
                       /\ ret'.val.mode = "form")) =>
                /\ DOMAIN session'[s] \cap
                       {"redmine_username", "redmine_password"} = {}
                /\ get_user_credentials(session'[s]) = None]_vars

C25_Witness ==
    /\ ret.op = "clear_credentials"
    /\ ret.val.mode = "form"
    /\ ret.deleted = {"redmine_username", "redmine_password"}
    /\ "jwt_token" \in DOMAIN session[ret.s]
    /\ DOMAIN session[ret.s] \cap {"redmine_username", "redmine_password"} = {}
    /\ \E row \in users : row.id = session[ret.s].user_id

\* C26: over logins, deletions and get_current_user calls of several
\* sessions, a get_current_user call whose token verifies never returns a
\* user whose remote id differs from the remote id of the user the token
\* was issued to.
C26_TokenNeverResolvesToAnotherRemoteIdentity ==
    [][\A s \in Sessions :
          (CurrentUserCalled(s) /\ ret'.val # None) =>
              ret'.val.redmine_user_id = RemoteIdOf(ret'.token.body.username)]_vars

RowsOfRemoteId(table, redmine_user_id) ==
    {row \in table : row.redmine_user_id = redmine_user_id}

\* C27: when two sessions run the first login of one remote id at the same
\* time, the table never holds two rows for one remote id, and the session
\* that reaches its insert after the other's row is there gets the login
\* result (False, message): nothing is raised out of login, its session
\* state is left as it was (no token stored), and the table holds exactly
\* one row for the remote id.
C27_ConcurrentFirstLoginKeepsOneRowAndLoserFails ==
    /\ [](\A row \in users :
            Cardinality(RowsOfRemoteId(users, row.redmine_user_id)) = 1)
    /\ [][\A s \in Sessions :
            (pc[s] = "insert" /\ pc'[s] # "insert"
                /\ RowsOfRemoteId(users, loc[s].redmine_user_id) # {}) =>
                /\ ret'.op = "login" /\ ret'.s = s
                /\ ~IsRaised(ret'.val)
                /\ ret'.val.success = FALSE
                /\ ret'.val.error # NoError
                /\ session'[s] = session[s]
                /\ users' = users
                /\ Cardinality(RowsOfRemoteId(users',
                                              loc[s].redmine_user_id)) = 1]_vars

C27_Witness ==
    /\ ret.op = "login"
    /\ ret.val.success = FALSE
    /\ ret.val.error = "Authentication error: UNIQUE constraint failed"
    /\ "jwt_token" \notin DOMAIN session[ret.s]
    /\ Cardinality(users) = 1
    /\ Len(createdLog) = 1

\* The token verifies now: it is signed with the secret key and not expired.
TokenVerifies(token, now) == token # None /\ verify_token(token, now) # None

\* The role the table holds now for a user id; None when no row has the id.
StoredRole(table, user_id) ==
    IF get_user_by_id(table, user_id) = None THEN None
    ELSE [role |-> get_user_by_id(table, user_id).role]

\* C28: is_admin answers from the role the table holds now for the user id
\* of the session's token, not from the role claim of the token: with a
\* token that verifies it is True exactly when that row exists with role
\* admin, so it is False for a token issued with role admin once the row
\* says user, and True for a token issued with role user once the row says
\* admin; and it leaves the token in the session.
C28_IsAdminFollowsStoredRole ==
    [][\A s \in SessSessions :
          (ret'.op = "is_admin" /\ ret'.s = s
              /\ TokenVerifies(StoredToken(s), clock)) =>
              /\ ret'.val =
                    (StoredRole(users, StoredToken(s).body.user_id)
                        = [role |-> "admin"])
              /\ StoredToken(s)' # None
              /\ StoredToken(s)'.body.user_id = StoredToken(s).body.user_id]_vars

C28_Witness ==
    /\ ret.op = "is_admin"
    /\ ret.val = FALSE
    /\ TokenVerifies(ret.token, clock)
    /\ ret.token.body.role = "admin"
    /\ StoredRole(users, ret.token.body.user_id) = [role |-> "user"]
    /\ get_user_by_id(users, ret.token.body.user_id).username
           = ret.token.body.username
    /\ TokenVerifies(StoredToken(ret.s), clock)

\* C29: get_current_user with a token that verifies but whose user id has
\* no row (the user was deleted) returns None, and is_authenticated and
\* is_admin are False; the session keeps its token, its derived user fields
\* and its cached credentials (it is not cleared as it is for a token that
\* does not verify).
C29_DeletedUserIsAbsentButSessionStays ==
    [][\A s \in SessSessions :
          (ret'.op \in {"get_current_user", "is_authenticated", "is_admin"}
              /\ ret'.s = s
              /\ TokenVerifies(StoredToken(s), clock)
              /\ StoredRole(users, StoredToken(s).body.user_id) = None) =>
              /\ ret'.op = "get_current_user" => ret'.val = None
              /\ ret'.op # "get_current_user" => ret'.val = FALSE
              /\ DOMAIN session'[s] = DOMAIN session[s]
              /\ StoredToken(s)' = current_token(session[s], clock)
              /\ TokenVerifies(StoredToken(s)', clock)
              /\ get_user_credentials(session'[s])
                     = get_user_credentials(session[s])]_vars

C29_Witness ==
    /\ ret.op = "get_current_user"
    /\ ret.val = None
    /\ TokenVerifies(ret.token, clock)
    /\ TokenVerifies(StoredToken(ret.s), clock)
    /\ StoredRole(users, ret.token.body.user_id) = None
    /\ HasCachedCredentials(session[ret.s])

\* C30: with roles changed and users deleted only through the user
\* management page, from the creation of the first user on the table holds
\* at least one row with role admin in every state, also when two admins
\* use the page at the same time.
C30_AlwaysAnAdmin ==
    createdLog # <<>> => \E row \in users : row.role = "admin"

====
